---- MODULE Spec2Model ----
(***************************************************************************)
(* ToolScheduler of dbrheo (packages/core/src/dbrheo/core/scheduler.py):   *)
(* the tool-call state machine, its confirmation hand-off, the execution   *)
(* passes and the completion sweep.                                        *)
(*                                                                         *)
(* The scheduler runs on one asyncio event loop: the code between two      *)
(* awaits is atomic.  The awaits are tool.should_confirm_execute (in       *)
(* schedule) and tool.execute (in _attempt_execution_of_scheduled_calls).  *)
(* Every coroutine suspended at one of them is a record of `tasks`; an     *)
(* action is what one coroutine does from one await to the next.           *)
(*                                                                         *)
(* The host's callbacks (on_tool_calls_update, on_all_tools_complete) are  *)
(* taken to return normally.  schedule() may be invoked at any time, also  *)
(* while an earlier schedule() is suspended in should_confirm_execute: the *)
(* guard _is_running() looks at executing and awaiting_approval only.      *)
(***************************************************************************)
EXTENDS Integers, Sequences, FiniteSets, TLC

\* ---------------------------------------------------------------- bounds
MaxSchedules == 2      \* schedule() invocations in one run
MaxBatch == 2          \* requests in one batch
MaxCalls == 2          \* tool calls created in one run
MaxOps == 4            \* add_server, remove_server and call_tool invocations in one run
MaxDepth == 1          \* nesting depth of the schemas handed to sanitize_parameters
MaxPasses == 2         \* sanitize_parameters applications in one run
WideBatch == 3         \* requests in the one batch of the wide runs
MaxNameLen == 2        \* characters in a tool name the server reports
MaxRegister == 3       \* register_tool invocations in one run
MaxAttempts == 5       \* largest RetryOptions.max_attempts

\* -------------------------------------------------------------- universe
CallIds == 1..MaxBatch                 \* the call_id strings, numbered
LocalTools == {"shell"}                 \* the built-in tools
MCPServers == {"srv"}                   \* the configured MCP servers (trust: false)
MCPTools == {"srv__read", "srv__write"} \* MCPToolAdapter names, server__tool
Registered == LocalTools \cup MCPTools  \* names tool_registry.get_tool finds
ToolNames == LocalTools \cup {"ghost"}  \* "ghost" is not in the registry

\* request.args: "complete" passes the tool's validate_tool_params,
\* "rejected" does not (an empty shell command, a missing required parameter)
Params == {"complete", "rejected"}

Terminal == {"success", "error", "cancelled"}

ProceedOutcomes ==
    {"proceed_once", "proceed_always", "proceed_always_server", "proceed_always_tool"}

Outcomes == ProceedOutcomes \cup {"cancel", "modify_with_editor", "unrecognized"}

VARIABLES
    tool_calls,   \* self.tool_calls
    tasks,        \* coroutines suspended at an await
    aborted,      \* signal.aborted of the shared AbortSignal
    nComplete,    \* on_all_tools_complete invocations so far
    nSchedule,    \* schedule() invocations so far
    nBatches,     \* accepted schedule() invocations with a non-empty batch
    nCalls,       \* ToolCall objects created so far
    swept,        \* the list the last action's sweep handed to on_all_tools_complete (<<>>: none)
    notifies,     \* on_tool_calls_update invocations of the last action
    edges,        \* status changes made by _set_status in the last action
    rejected,     \* the last action was a schedule() that raised
    answered,     \* the confirmation the last action handled (uid 0: none)
    trusted,      \* MCPToolAdapter._trusted_servers and ._trusted_tools
    always,       \* the "always" answers given to MCP confirmations so far
    at_complete,  \* what on_all_tools_complete found when the last action's sweep invoked it
    servers,          \* MCPClientManager.servers
    registered_tools, \* MCPRegistry.registered_tools (the names)
    tools,            \* ToolRegistry.tools (the names)
    configured,       \* MCPConfig.servers (the names)
    mcp_tasks,        \* MCP coroutines suspended at an await
    returned,         \* what the last MCP action returned to its caller
    entered,          \* the AsyncExitStacks that hold a context entered and not closed
    nOps,             \* add_server, remove_server and call_tool invocations so far
    schema,           \* the schema sanitize_parameters is applied to next
    original,         \* the schema the run started with
    argument,         \* the dict handed to the last sanitize_parameters, as the call left it
    tool_info,        \* ToolRegistry.tools: the ToolInfo of the tools the callers register
    _capability_index, \* ToolRegistry._capability_index for those tools
    nRegister,        \* register_tool invocations so far
    original_names,   \* the names of the tools in one list_tools response
    sanitized_names,  \* the MCPToolInfo.name made of each so far
    passes,           \* sanitize_parameters applications so far
    max_attempts,          \* RetryOptions.max_attempts
    on_persistent_429,     \* RetryOptions.on_persistent_429 is set
    attempt,               \* the loop variable of retry_with_backoff
    consecutive_429_count, \* its local of that name
    last_error,            \* its local of that name ("": None)
    current_delay_ms,      \* its local of that name
    retry_pc,              \* where retry_with_backoff is
    results                \* what the invocations of func ended in, in order

sanitizerVars == <<schema, original, argument, passes>>
registryVars == <<tool_info, _capability_index, nRegister>>
nameVars == <<original_names, sanitized_names>>

retryVars == <<max_attempts, on_persistent_429, attempt, consecutive_429_count,
               last_error, current_delay_ms, retry_pc, results>>

mcpVars == <<servers, registered_tools, tools, configured, mcp_tasks, returned, nOps,
             entered>>

schedulerVars == <<tool_calls, tasks, aborted, nComplete, nSchedule, nBatches, nCalls,
                   swept, notifies, edges, rejected, answered, trusted, always,
                   at_complete>>

\* what the scheduler does not touch
nonSchedulerVars == <<mcpVars, sanitizerVars, retryVars, registryVars, nameVars>>

\* what the MCP client and registry do not touch
nonMCPVars == <<schedulerVars, sanitizerVars, retryVars, registryVars, nameVars>>

vars == <<schedulerVars, mcpVars, sanitizerVars, retryVars, registryVars, nameVars>>

\* ------------------------------------------------------------- responses
NoResp == [call_id |-> 0, part |-> "none", id |-> 0, name |-> "", content |-> ""]

\* {'functionResponse': {'id': .., 'name': .., 'response': ..}}
FunctionResponse(call_id, name, content) ==
    [call_id |-> call_id, part |-> "functionResponse", id |-> call_id,
     name |-> name, content |-> content]

\* utils.function_response.convert_to_function_response
convert_to_function_response(name, call_id, content) ==
    FunctionResponse(call_id, name, content)

\* ToolCallResponseInfo(call_id, response_parts={'text': ...})
CancelResponse(call_id) ==
    [call_id |-> call_id, part |-> "text", id |-> 0, name |-> "",
     content |-> "User cancelled the operation"]

\* ------------------------------------------------------------ list helpers
Min(S) == CHOOSE i \in S : \A j \in S : i <= j

IsTerminal(status) == status \in Terminal

HasStatus(calls, set) == \E i \in 1..Len(calls) : calls[i].status \in set

\* on_all_tools_complete was not invoked
NoCompletion == [called |-> FALSE, seen |-> <<>>, notifies |-> 0, updated |-> <<>>]

\* the scheduler's mutable fields, threaded through one atomic block
Sched(tc, comp, sw, nt, ed) ==
    [tool_calls |-> tc, nComplete |-> comp, swept |-> sw, notifies |-> nt, edges |-> ed,
     at_complete |-> NoCompletion]

_notify_tool_calls_update(s) == [s EXCEPT !.notifies = @ + 1]

\* _is_running that forgets the calls awaiting approval
IsRunningExecutingOnly(calls) == HasStatus(calls, {"executing"})

_is_running(calls) == HasStatus(calls, {"executing", "awaiting_approval"})

\* the sweep's condition with any() in place of all()
SweepConditionAny(calls) ==
    /\ Len(calls) > 0
    /\ \E i \in 1..Len(calls) : calls[i].status \in Terminal
    /\ ~HasStatus(calls, {"awaiting_approval"})
    /\ ~HasStatus(calls, {"executing"})

\* the condition under which the sweep clears the list
SweepCondition(calls) ==
    /\ Len(calls) > 0
    /\ \A i \in 1..Len(calls) : calls[i].status \in Terminal
    /\ ~HasStatus(calls, {"awaiting_approval"})
    /\ ~HasStatus(calls, {"executing"})

\* a sweep that invokes on_all_tools_complete before it clears the list
SweepEffectsCallbackFirst(s) ==
    LET called == [s EXCEPT !.swept = s.tool_calls,
                            !.nComplete = @ + 1,
                            !.at_complete = [called |-> TRUE, seen |-> s.tool_calls,
                                             notifies |-> s.notifies, updated |-> <<>>]]
    IN _notify_tool_calls_update([called EXCEPT !.tool_calls = <<>>])

\* the sweep's effects: completed_calls = list(self.tool_calls);
\* self.tool_calls = []; on_all_tools_complete(completed_calls);
\* _notify_tool_calls_update()
SweepEffects(s) ==
    LET cleared == [s EXCEPT !.tool_calls = <<>>, !.swept = s.tool_calls]
        called == [cleared EXCEPT
                      !.nComplete = @ + 1,
                      !.at_complete = [called |-> TRUE, seen |-> cleared.tool_calls,
                                       notifies |-> cleared.notifies,
                                       updated |-> cleared.tool_calls]]
    IN _notify_tool_calls_update(called)

_check_and_notify_completion(s) ==
    IF Len(s.tool_calls) = 0 THEN s
    ELSE IF SweepCondition(s.tool_calls) THEN SweepEffects(s)
         ELSE s

\* _set_status without its test for a terminal status
SetStatusIndexNoGuard(calls, call_id) ==
    LET I == {i \in 1..Len(calls) : calls[i].call_id = call_id}
    IN IF I = {} THEN 0 ELSE Min(I)

\* index _set_status replaces: the first call with this call_id that is not terminal
SetStatusIndex(calls, call_id) ==
    LET I == {i \in 1..Len(calls) :
                 calls[i].call_id = call_id /\ ~IsTerminal(calls[i].status)}
    IN IF I = {} THEN 0 ELSE Min(I)

\* the update that drops the old record and puts the new one last
RemoveAndAppend(calls, i, new_call) ==
    [j \in 1..Len(calls) |->
        IF j < i THEN calls[j] ELSE IF j < Len(calls) THEN calls[j + 1] ELSE new_call]

\* `self.tool_calls[i] = new_call`
ReplaceAt(calls, i, new_call) == [calls EXCEPT ![i] = new_call]

_set_status(s, call_id, status, details) ==
    LET i == SetStatusIndex(s.tool_calls, call_id)
        old == s.tool_calls[i]
        s1 == IF i = 0 THEN s
              ELSE [s EXCEPT
                      !.tool_calls = ReplaceAt(@, i,
                                         [old EXCEPT !.status = status, !.resp = details]),
                      !.edges = @ \cup
                          {[from |-> old.status, to |-> status,
                            paused |-> HasStatus(s.tool_calls, {"awaiting_approval"})]}]
    IN _check_and_notify_completion(_notify_tool_calls_update(s1))

\* ------------------------------------------------------------ coroutines
\* no coroutine left: the handler ran to its end
Done == [pc |-> "done", new_tool_calls |-> <<>>, idx |-> 0, frozen |-> FALSE,
         view |-> <<>>, pos |-> 0, uid |-> 0, call_id |-> 0, name |-> "",
         params |-> ""]

\* a pass that also takes up the calls that are executing
ToExecuteOrExecuting(call) == call.status \in {"scheduled", "executing"}

\* `if tool_call.status == 'scheduled'`: the calls a pass executes
ToExecute(call) == call.status = "scheduled"

\* The loop `for tool_call in self.tool_calls` from position pos up to the
\* next `await tool_call.tool.execute(...)`.  The loop iterates the list
\* object it started on: the live list (in-place replacements and appended
\* calls are seen) until a sweep rebinds self.tool_calls, from then on the
\* detached old list (frozen, view).
RECURSIVE _attempt_execution_of_scheduled_calls(_, _, _, _)
_attempt_execution_of_scheduled_calls(s, frozen, view, pos) ==
    LET lst == IF frozen THEN view ELSE s.tool_calls
    IN IF pos > Len(lst) THEN [s |-> s, task |-> Done]
       ELSE IF ToExecute(lst[pos])
            THEN LET s1 == _set_status(s, lst[pos].call_id, "executing", NoResp)
                     rebound == s1.nComplete > s.nComplete
                 IN [s |-> s1,
                     task |-> [pc |-> "execute", new_tool_calls |-> <<>>, idx |-> 0,
                               frozen |-> frozen \/ rebound,
                               view |-> IF frozen THEN view
                                        ELSE IF rebound THEN s1.swept ELSE <<>>,
                               pos |-> pos, uid |-> lst[pos].uid,
                               call_id |-> lst[pos].call_id,
                               name |-> lst[pos].name, params |-> lst[pos].params]]
            ELSE _attempt_execution_of_scheduled_calls(s, frozen, view, pos + 1)

\* The loop `for tool_call in new_tool_calls` of schedule() from position idx
\* up to the next `await tool_call.tool.should_confirm_execute(...)`; when
\* the loop is over, the execution pass starts.  new_tool_calls keeps the
\* objects as created, so the test `status != 'validating'` skips exactly
\* the calls created in error.
ValidateFrom(s, new_tool_calls, idx) ==
    LET J == {j \in idx..Len(new_tool_calls) : new_tool_calls[j].status = "validating"}
    IN IF J # {}
       THEN [s |-> s,
             task |-> [pc |-> "confirm", new_tool_calls |-> new_tool_calls, idx |-> Min(J),
                       frozen |-> FALSE, view |-> <<>>, pos |-> 0,
                       uid |-> new_tool_calls[Min(J)].uid,
                       call_id |-> new_tool_calls[Min(J)].call_id,
                       name |-> new_tool_calls[Min(J)].name,
                       params |-> new_tool_calls[Min(J)].params]]
       ELSE _attempt_execution_of_scheduled_calls(s, FALSE, <<>>, 1)

\* a pass suspended on the live list keeps the old list object after a sweep
Detach(t, sw) ==
    IF sw # <<>> /\ t.pc = "execute" /\ ~t.frozen
    THEN [t EXCEPT !.frozen = TRUE, !.view = sw]
    ELSE t

\* the state after an atomic block that ended in result r
Commit(r, others) ==
    /\ tool_calls' = r.s.tool_calls
    /\ nComplete' = r.s.nComplete
    /\ swept' = r.s.swept
    /\ notifies' = r.s.notifies
    /\ edges' = r.s.edges
    /\ at_complete' = r.s.at_complete
    /\ rejected' = FALSE
    /\ tasks' = {Detach(t, r.s.swept) : t \in others}
                   \cup (IF r.task.pc = "done" THEN {} ELSE {r.task})
    /\ UNCHANGED nonSchedulerVars

Start == Sched(tool_calls, nComplete, <<>>, 0, {})

\* no confirmation was handled
NoAnswer == [uid |-> 0, outcome |-> ""]

\* ---------------------------------------------------------------- inputs
\* call ids are unique within a batch and name no call that is still live
LiveIds == {tool_calls[i].call_id : i \in {j \in 1..Len(tool_calls) :
                                              ~(tool_calls[j].status \in Terminal)}}

RequestsOf(names, params) ==
    {q \in UNION {[1..n -> [call_id : CallIds \ LiveIds, name : names, params : params]] :
                     n \in 0..MaxBatch} :
        /\ nCalls + Len(q) <= MaxCalls
        /\ \A i, j \in 1..Len(q) : i < j => q[i].call_id < q[j].call_id}

\* batches for the built-in tools, with arguments the tools accept
Requests == RequestsOf(ToolNames, {"complete"})

\* batches for the registered tools, MCP tools included, with any arguments
ToolRequests == RequestsOf(Registered, Params)

\* ---------------------------------------------------------------- actions
\* MCPServerConnection before it is created (absent) and as created
\* session and exit_stack name the AsyncExitStack the object belongs to,
\* 0 for None; tools is the list of the sanitized names
NoConnection ==
    [present |-> FALSE, status |-> "disconnected", session |-> 0,
     exit_stack |-> 0, tools |-> <<>>]

MCPServerConnection == [NoConnection EXCEPT !.present = TRUE]

\* no MCP handler returned
NoReturn == [op |-> "", server |-> "", value |-> "", listed |-> FALSE, found |-> <<>>]

\* MCPClientManager(), MCPRegistry(), the ToolRegistry with the built-in tools
MCPInit ==
    /\ servers = [name \in MCPServers |-> NoConnection]
    /\ registered_tools = {}
    /\ tools = LocalTools
    /\ configured = {}
    /\ mcp_tasks = {}
    /\ returned = NoReturn
    /\ nOps = 0
    /\ entered = {}

SchedulerInit ==
    /\ tool_calls = <<>>
    /\ tasks = {}
    /\ aborted = FALSE
    /\ nComplete = 0
    /\ nSchedule = 0
    /\ nBatches = 0
    /\ nCalls = 0
    /\ swept = <<>>
    /\ notifies = 0
    /\ edges = {}
    /\ rejected = FALSE
    /\ answered = NoAnswer
    /\ trusted = [servers |-> {}, tools |-> {}]
    /\ always = {}
    /\ at_complete = NoCompletion

\* a JSON schema: a dict with its `type` and `format` ("": key absent), the
\* other scalar keys it has, and the schemas nested under one of its keys;
\* is_dict is FALSE for a value that is no dict
Schema(type, format, fields, container, child) ==
    [is_dict |-> TRUE, type |-> type, format |-> format, fields |-> fields,
     container |-> container, child |-> child]

EmptyDict == Schema("", "", {}, "", <<>>)

NotADict == [EmptyDict EXCEPT !.is_dict = FALSE]

\* no schema at hand
SanitizerIdle ==
    /\ schema = EmptyDict
    /\ original = EmptyDict
    /\ argument = EmptyDict
    /\ passes = 0

initial_delay_ms == 5000
max_delay_ms == 30000

\* RetryOptions() and no retry_with_backoff under way
RetryIdle ==
    /\ max_attempts = MaxAttempts
    /\ on_persistent_429 = FALSE
    /\ attempt = 0
    /\ consecutive_429_count = 0
    /\ last_error = ""
    /\ current_delay_ms = initial_delay_ms
    /\ retry_pc = "idle"
    /\ results = <<>>

\* the tools and capabilities of the registry runs, and the priorities
\* register_tool is given
RegistryTools == {"t1", "t2"}
Capabilities == {"query", "modify"}
Priorities == {50, 60}

\* no ToolInfo under this name
NoToolInfo == [registered |-> FALSE, capabilities |-> {}, priority |-> 0]

\* ToolInfo(tool, capabilities, tags, priority, metadata), tags and metadata left out
ToolInfo(capabilities, priority) ==
    [registered |-> TRUE, capabilities |-> capabilities, priority |-> priority]

\* ToolRegistry(config), seen from the tools no caller has registered yet
RegistryInit ==
    /\ tool_info = [name \in RegistryTools |-> NoToolInfo]
    /\ _capability_index = [c \in Capabilities |-> {}]
    /\ nRegister = 0

\* no list_tools response at hand
NamesIdle ==
    /\ original_names = <<>>
    /\ sanitized_names = <<>>

Init == SchedulerInit /\ MCPInit /\ SanitizerIdle /\ RetryIdle /\ RegistryInit /\ NamesIdle

\* the calls schedule() creates for a batch: ErroredToolCall for a name the
\* registry does not know, ValidatingToolCall otherwise
NewToolCalls(requests, batch, uid0) ==
    [i \in 1..Len(requests) |->
        IF requests[i].name \in Registered
        THEN [uid |-> uid0 + i, batch |-> batch, call_id |-> requests[i].call_id,
              name |-> requests[i].name, params |-> requests[i].params,
              status |-> "validating", resp |-> NoResp]
        ELSE [uid |-> uid0 + i, batch |-> batch, call_id |-> requests[i].call_id,
              name |-> requests[i].name, params |-> requests[i].params,
              status |-> "error",
              resp |-> FunctionResponse(requests[i].call_id, requests[i].name, "not found in registry")]]

\* schedule(requests, signal) raising because the scheduler is running
ScheduleRejected ==
    /\ nSchedule < MaxSchedules
    /\ _is_running(tool_calls)
    /\ \E requests \in Requests : TRUE
    /\ nSchedule' = nSchedule + 1
    /\ rejected' = TRUE
    /\ swept' = <<>> /\ notifies' = 0 /\ edges' = {} /\ answered' = NoAnswer
    /\ at_complete' = NoCompletion
    /\ UNCHANGED <<tool_calls, tasks, aborted, nComplete, nBatches, nCalls, trusted, always>>
    /\ UNCHANGED nonSchedulerVars

\* schedule(requests, signal) up to its first await
ScheduleBatch(requests) ==
    /\ nSchedule < MaxSchedules
    /\ ~_is_running(tool_calls)
    /\ LET new_tool_calls == NewToolCalls(requests, nSchedule + 1, nCalls)
           s1 == _notify_tool_calls_update(
                     [Start EXCEPT !.tool_calls = @ \o new_tool_calls])
       IN /\ Commit(ValidateFrom(s1, new_tool_calls, 1), tasks)
          /\ nBatches' = nBatches + (IF Len(requests) > 0 THEN 1 ELSE 0)
          /\ nCalls' = nCalls + Len(requests)
    /\ nSchedule' = nSchedule + 1
    /\ answered' = NoAnswer
    /\ UNCHANGED <<aborted, trusted, always>>

Schedule == \E requests \in Requests : ScheduleBatch(requests)

ScheduleTools == \E requests \in ToolRequests : ScheduleBatch(requests)

\* the tool's validate_tool_params: the error text, "" for None
validate_tool_params(name, params) ==
    IF params = "rejected" THEN "invalid parameters" ELSE ""

\* MCPToolInfo.server_name of an adapter
ServerOf(name) == CHOOSE server \in MCPServers : TRUE

\* what should_confirm_execute can hand back.  MCPToolAdapter: nothing
\* for a trusted server or tool, confirmation details otherwise.  ShellTool:
\* nothing for arguments its own validate_tool_params rejects.
ShouldConfirmOutcomes(name, params) ==
    IF name \in MCPTools
    THEN IF ServerOf(name) \in trusted.servers \/ name \in trusted.tools
         THEN {"none"} ELSE {"details"}
    ELSE IF validate_tool_params(name, params) # ""
         THEN {"none"} ELSE {"details", "none", "raise"}

\* should_confirm_execute returns (confirmation details or nothing) or raises;
\* schedule() goes on to its next await
ConfirmReturn(t, outcome) ==
    /\ t \in tasks /\ t.pc = "confirm"
    /\ outcome \in ShouldConfirmOutcomes(t.name, t.params)
    /\ LET s1 == CASE outcome = "details" ->
                        _set_status(Start, t.call_id, "awaiting_approval", NoResp)
                   [] outcome = "none" ->
                        _set_status(Start, t.call_id, "scheduled", NoResp)
                   [] OTHER ->
                        _set_status(Start, t.call_id, "error",
                            FunctionResponse(t.call_id, t.name, "Validation failed"))
       IN Commit(ValidateFrom(s1, t.new_tool_calls, t.idx + 1), tasks \ {t})
    /\ answered' = NoAnswer
    /\ UNCHANGED <<aborted, nSchedule, nBatches, nCalls, trusted, always>>

\* what tool.execute can hand back: a result, a result with a non-empty
\* error, an exception, or (once the signal is aborted) the result of a tool
\* that honoured the abort, ToolResult(error="Execution aborted")
ExecuteOutcomes == {"result", "result_error", "raise"} \cup
                   (IF aborted THEN {"aborted"} ELSE {})

\* a pass that tests only for an exception, never result.error
ExecuteStatusIgnoringError(outcome) ==
    IF outcome = "raise" THEN "error" ELSE "success"

\* the status the pass sets after execute: error for a raise and for a
\* result with a non-empty error, success otherwise
ExecuteStatus(outcome) ==
    IF outcome = "result" THEN "success" ELSE "error"

\* tool.execute returns or raises; the pass goes on to its next await
ExecReturn(t, outcome) ==
    /\ t \in tasks /\ t.pc = "execute"
    /\ outcome \in ExecuteOutcomes
    /\ LET s1 == CASE outcome = "result" ->
                        _set_status(Start, t.call_id, ExecuteStatus(outcome),
                            convert_to_function_response(t.name, t.call_id, "output"))
                   [] outcome = "result_error" ->
                        _set_status(Start, t.call_id, ExecuteStatus(outcome),
                            convert_to_function_response(t.name, t.call_id, "result.error"))
                   [] outcome = "aborted" ->
                        _set_status(Start, t.call_id, ExecuteStatus(outcome),
                            convert_to_function_response(t.name, t.call_id, "Execution aborted"))
                   [] OTHER ->
                        _set_status(Start, t.call_id, ExecuteStatus(outcome),
                            FunctionResponse(t.call_id, t.name, "exception"))
           rebound == s1.swept # <<>>
       IN Commit(_attempt_execution_of_scheduled_calls(
                     s1, t.frozen \/ rebound,
                     IF t.frozen THEN t.view ELSE s1.swept, t.pos + 1),
                 tasks \ {t})
    /\ answered' = NoAnswer
    /\ UNCHANGED <<aborted, nSchedule, nBatches, nCalls, trusted, always>>

\* the lookup of handle_confirmation_response without its test of the status
FindAwaitingAnyStatus(calls, call_id) ==
    LET I == {i \in 1..Len(calls) : calls[i].call_id = call_id}
    IN IF I = {} THEN 0 ELSE Min(I)

\* the awaiting call handle_confirmation_response looks for (0: none)
FindAwaiting(calls, call_id) ==
    LET I == {i \in 1..Len(calls) :
                 calls[i].call_id = call_id /\ calls[i].status = "awaiting_approval"}
    IN IF I = {} THEN 0 ELSE Min(I)

\* the cancel test that forgets the signal
IsCancelOutcomeOnly(outcome, signal_aborted) == outcome = "cancel"

\* `outcome == 'cancel' or signal.aborted`
IsCancel(outcome, signal_aborted) == outcome = "cancel" \/ signal_aborted

\* a handler that takes modify_with_editor without looking at the payload
ConfirmationStatusAnyPayload(outcome, payload, signal_aborted) ==
    IF IsCancel(outcome, signal_aborted) THEN "cancelled"
    ELSE IF outcome = "modify_with_editor" THEN "scheduled"
    ELSE IF outcome \in ProceedOutcomes THEN "scheduled"
    ELSE ""

\* the status handle_confirmation_response sets for the awaiting call, ""
\* when none of its branches is taken
ConfirmationStatus(outcome, payload, signal_aborted) ==
    IF IsCancel(outcome, signal_aborted) THEN "cancelled"
    ELSE IF outcome = "modify_with_editor" /\ payload THEN "scheduled"
    ELSE IF outcome \in ProceedOutcomes THEN "scheduled"
    ELSE ""

\* handle_confirmation_response(call_id, outcome, signal, payload) up to its
\* first await
HandleConfirmationResponse(call_id, outcome, payload) ==
    LET i == FindAwaiting(tool_calls, call_id)
    IN IF i = 0
       THEN /\ swept' = <<>> /\ notifies' = 0 /\ edges' = {} /\ rejected' = FALSE
            /\ answered' = NoAnswer
            /\ at_complete' = NoCompletion
            /\ UNCHANGED <<tool_calls, tasks, aborted, nComplete, nSchedule, nBatches, nCalls,
                           trusted, always>>
            /\ UNCHANGED nonSchedulerVars
       ELSE /\ LET status == ConfirmationStatus(outcome, payload, aborted)
                   s1 == IF status = "cancelled"
                         THEN _set_status(Start, call_id, status, CancelResponse(call_id))
                         ELSE IF status = "scheduled"
                         THEN _set_status(Start, call_id, status, NoResp)
                         ELSE Start
               IN Commit(_attempt_execution_of_scheduled_calls(s1, FALSE, <<>>, 1), tasks)
            /\ answered' = [uid |-> tool_calls[i].uid, outcome |-> outcome]
            /\ always' = IF /\ tool_calls[i].name \in MCPTools
                            /\ ~IsCancel(outcome, aborted)
                            /\ outcome \in {"proceed_always_server", "proceed_always_tool"}
                         THEN always \cup {[outcome |-> outcome, name |-> tool_calls[i].name,
                                            at |-> nSchedule]}
                         ELSE always
            /\ UNCHANGED <<aborted, nSchedule, nBatches, nCalls, trusted>>

\* signal.abort()
Abort ==
    /\ ~aborted
    /\ aborted' = TRUE
    /\ swept' = <<>> /\ notifies' = 0 /\ edges' = {} /\ rejected' = FALSE
    /\ answered' = NoAnswer
    /\ at_complete' = NoCompletion
    /\ UNCHANGED <<tool_calls, tasks, nComplete, nSchedule, nBatches, nCalls, trusted, always>>
    /\ UNCHANGED nonSchedulerVars

Next ==
    \/ Schedule
    \/ ScheduleRejected
    \/ \E t \in tasks, outcome \in {"details", "none", "raise"} : ConfirmReturn(t, outcome)
    \/ \E t \in tasks, outcome \in {"result", "result_error", "raise", "aborted"} :
          ExecReturn(t, outcome)
    \/ \E call_id \in CallIds, outcome \in Outcomes :
          \E payload \in (IF outcome = "modify_with_editor" THEN BOOLEAN ELSE {FALSE}) :
             HandleConfirmationResponse(call_id, outcome, payload)
    \/ Abort

Spec == Init /\ [][Next]_vars

\* the scheduler serving the whole registry
NextTools ==
    \/ ScheduleTools
    \/ ScheduleRejected
    \/ \E t \in tasks, outcome \in {"details", "none", "raise"} : ConfirmReturn(t, outcome)
    \/ \E t \in tasks, outcome \in {"result", "result_error", "raise", "aborted"} :
          ExecReturn(t, outcome)
    \/ \E call_id \in CallIds, outcome \in Outcomes :
          \E payload \in (IF outcome = "modify_with_editor" THEN BOOLEAN ELSE {FALSE}) :
             HandleConfirmationResponse(call_id, outcome, payload)
    \/ Abort

SpecTools == Init /\ [][NextTools]_vars

\* one batch of three calls of the built-in tool
WideRequests ==
    {[i \in 1..WideBatch |-> [call_id |-> i, name |-> "shell", params |-> "complete"]]}

ScheduleWide == nCalls = 0 /\ \E requests \in WideRequests : ScheduleBatch(requests)

\* the scheduler given a batch wider than MaxBatch, with tools that neither
\* raise nor fail and a signal that is not aborted
NextWide ==
    \/ ScheduleWide
    \/ \E t \in tasks, outcome \in {"details", "none"} : ConfirmReturn(t, outcome)
    \/ \E t \in tasks : ExecReturn(t, "result")
    \/ \E call_id \in 1..WideBatch, outcome \in Outcomes :
          \E payload \in (IF outcome = "modify_with_editor" THEN BOOLEAN ELSE {FALSE}) :
             HandleConfirmationResponse(call_id, outcome, payload)

SpecWide == Init /\ [][NextWide]_vars

\* ------------------------------------------------- MCP client and registry
\* One coroutine of add_server or remove_server is in flight at a time;
\* call_tool coroutines run beside it.  The awaits are the steps of
\* connect_server (stdio_client, ClientSession, session.initialize,
\* session.list_tools), exit_stack.aclose and session.call_tool.

\* MCPClientManager._update_status
_update_status(srv, name, status) == [srv EXCEPT ![name].status = status]

\* disconnect_server after exit_stack.aclose(): status and connection info
ClearConnection(srv, name) ==
    [_update_status(srv, name, "disconnected") EXCEPT
        ![name].session = 0, ![name].exit_stack = 0, ![name].tools = <<>>]

\* MCPClientManager.get_server_tools
get_server_tools(srv, name) == IF srv[name].present THEN srv[name].tools ELSE <<>>

\* the names in a list of MCPToolInfo
Names(tool_list) == {tool_list[i] : i \in 1..Len(tool_list)}

\* MCPClientManager.get_all_tools: the names of every server's tools
get_all_tools(srv) == UNION {Names(get_server_tools(srv, name)) : name \in MCPServers}

\* ToolRegistry.register_tool
register_tool(registry, name) == registry \cup {name}

\* ToolRegistry.get_tool ("" for None)
get_tool(registry, name) == IF name \in registry THEN name ELSE ""

\* the names ToolRegistry.get_function_declarations lists
get_function_declarations(registry) == {name \in Registered : name \in registry}

\* hasattr(tool_registry, 'unregister_tool'): ToolRegistry has no such method
HasUnregisterTool == FALSE

\* no add_server or remove_server is suspended
LifecycleIdle == \A t \in mcp_tasks : t.op = "call_tool"

\* a suspended coroutine; stack is the AsyncExitStack its await works on
MCPTask(op, pc, name, id, stack) ==
    [op |-> op, pc |-> pc, server |-> name, id |-> id, stack |-> stack]

Returned(op, name, value) ==
    [op |-> op, server |-> name, value |-> value, listed |-> FALSE, found |-> <<>>]

\* the answers of session.list_tools, as lists of sanitized names
ToolLists == {<<>>, <<"srv__read">>, <<"srv__write">>, <<"srv__read", "srv__write">>}

\* a discovery that appends to the list the connection holds
DiscoveredAppended(old, found) == old \o found

\* _discover_tools: server_conn.tools = [] and one append per tool found
Discovered(old, found) == found

\* add_server(name, config, tool_registry) up to the first await of
\* connect_server
BeginAddServer(name) ==
    /\ nOps < MaxOps
    /\ configured' = configured \cup {name}
    /\ servers' = [servers EXCEPT ![name] =
                      [(IF @.present THEN @ ELSE MCPServerConnection) EXCEPT
                          !.status = "connecting", !.exit_stack = nOps + 1]]
    /\ mcp_tasks' = mcp_tasks \cup
                       {MCPTask("add_server", "stdio", name, nOps + 1, nOps + 1)}
    /\ nOps' = nOps + 1
    /\ returned' = NoReturn
    /\ UNCHANGED <<registered_tools, tools, entered>>
    /\ UNCHANGED nonMCPVars

\* add_server while no other add_server or remove_server is in flight
AddServer(name) == LifecycleIdle /\ BeginAddServer(name)

\* the except branch of connect_server: the status becomes error and
\* disconnect_server runs up to its await, or to its end when the
\* connection holds no exit stack
FailConnect(t) ==
    LET srv == _update_status(servers, t.server, "error")
    IN IF srv[t.server].exit_stack # 0
       THEN /\ servers' = srv
            /\ mcp_tasks' = (mcp_tasks \ {t}) \cup
                  {[t EXCEPT !.pc = "aclose", !.stack = srv[t.server].exit_stack]}
            /\ returned' = NoReturn
       ELSE /\ servers' = ClearConnection(srv, t.server)
            /\ mcp_tasks' = mcp_tasks \ {t}
            /\ returned' = Returned("connect_server", t.server, "False")

\* stdio_client, ClientSession or session.initialize returns (ok) or raises;
\* a context that was entered is held by the stack the await worked on
ConnectStep(t, ok) ==
    /\ t \in mcp_tasks /\ t.pc \in {"stdio", "session", "initialize"}
    /\ CASE t.pc = "stdio" /\ ok ->
               /\ entered' = entered \cup {t.stack}
               /\ IF servers[t.server].exit_stack = 0
                  THEN FailConnect(t)
                  ELSE /\ mcp_tasks' = (mcp_tasks \ {t}) \cup
                             {[t EXCEPT !.pc = "session",
                                        !.stack = servers[t.server].exit_stack]}
                       /\ returned' = NoReturn
                       /\ UNCHANGED servers
         [] t.pc = "session" /\ ok ->
               /\ entered' = entered \cup {t.stack}
               /\ servers' = [servers EXCEPT ![t.server].session = t.stack]
               /\ mcp_tasks' = (mcp_tasks \ {t}) \cup {[t EXCEPT !.pc = "initialize"]}
               /\ returned' = NoReturn
         [] t.pc = "initialize" /\ ok ->
               /\ servers' = _update_status(servers, t.server, "connected")
               /\ IF servers[t.server].session = 0
                  THEN /\ mcp_tasks' = mcp_tasks \ {t}
                       /\ returned' = Returned("connect_server", t.server, "True")
                  ELSE /\ mcp_tasks' = (mcp_tasks \ {t}) \cup {[t EXCEPT !.pc = "list_tools"]}
                       /\ returned' = NoReturn
               /\ UNCHANGED entered
         [] OTHER ->
               /\ FailConnect(t)
               /\ UNCHANGED entered
    /\ UNCHANGED <<registered_tools, tools, configured, nOps>>
    /\ UNCHANGED nonMCPVars

\* session.list_tools returns the server's tools or raises; connect_server
\* returns True and add_server registers what was discovered
ListToolsReturn(t, raised, found) ==
    /\ t \in mcp_tasks /\ t.pc = "list_tools"
    /\ LET srv == IF raised THEN servers
                  ELSE [servers EXCEPT ![t.server].tools = Discovered(@, found)]
           discovered == IF get_server_tools(srv, t.server) = <<>> THEN {}
                         ELSE get_all_tools(srv)
       IN /\ servers' = srv
          /\ tools' = tools \cup discovered
          /\ registered_tools' = registered_tools \cup discovered
    /\ mcp_tasks' = mcp_tasks \ {t}
    /\ returned' = [Returned("connect_server", t.server, "True") EXCEPT
                       !.listed = ~raised, !.found = found]
    /\ UNCHANGED <<configured, nOps, entered>>
    /\ UNCHANGED nonMCPVars

\* exit_stack.aclose() returns or raises (swallowed): the contexts of the
\* stack are closed and disconnect_server clears the connection;
\* connect_server then returns False, remove_server goes on to drop the
\* configuration
AcloseReturn(t) ==
    /\ t \in mcp_tasks /\ t.pc = "aclose"
    /\ entered' = entered \ {t.stack}
    /\ servers' = ClearConnection(servers, t.server)
    /\ mcp_tasks' = mcp_tasks \ {t}
    /\ IF t.op = "add_server"
       THEN /\ returned' = Returned("connect_server", t.server, "False")
            /\ UNCHANGED configured
       ELSE /\ returned' = Returned("remove_server", t.server, "None")
            /\ configured' = configured \ {t.server}
    /\ UNCHANGED <<registered_tools, tools, nOps>>
    /\ UNCHANGED nonMCPVars

\* remove_server(name, tool_registry) up to the await in disconnect_server
BeginRemoveServer(name) ==
    /\ nOps < MaxOps
    /\ LET tools_to_remove == {n \in registered_tools : ServerOf(n) = name}
       IN /\ tools' = IF HasUnregisterTool THEN tools \ tools_to_remove ELSE tools
          /\ registered_tools' = registered_tools \ tools_to_remove
    /\ IF servers[name].present /\ servers[name].exit_stack # 0
       THEN /\ mcp_tasks' = mcp_tasks \cup
                  {MCPTask("remove_server", "aclose", name, nOps + 1,
                           servers[name].exit_stack)}
            /\ returned' = NoReturn
            /\ UNCHANGED <<servers, configured>>
       ELSE /\ servers' = IF servers[name].present THEN ClearConnection(servers, name)
                          ELSE servers
            /\ configured' = configured \ {name}
            /\ returned' = Returned("remove_server", name, "None")
            /\ UNCHANGED mcp_tasks
    /\ nOps' = nOps + 1
    /\ UNCHANGED entered
    /\ UNCHANGED nonMCPVars

\* remove_server while no other add_server or remove_server is in flight
RemoveServer(name) == LifecycleIdle /\ BeginRemoveServer(name)

\* call_tool(server_name, tool_name, parameters) up to session.call_tool
CallTool(name) ==
    /\ nOps < MaxOps
    /\ IF servers[name].present /\ servers[name].session # 0
       THEN /\ mcp_tasks' = mcp_tasks \cup
                  {MCPTask("call_tool", "call", name, nOps + 1, servers[name].session)}
            /\ returned' = NoReturn
       ELSE /\ returned' = Returned("call_tool", name, "None")
            /\ UNCHANGED mcp_tasks
    /\ nOps' = nOps + 1
    /\ UNCHANGED <<servers, registered_tools, tools, configured, entered>>
    /\ UNCHANGED nonMCPVars

\* the server answers session.call_tool, or the call raises
CallToolReturn(t, raised) ==
    /\ t \in mcp_tasks /\ t.pc = "call"
    /\ mcp_tasks' = mcp_tasks \ {t}
    /\ returned' = Returned("call_tool", t.server, IF raised THEN "None" ELSE "result")
    /\ UNCHANGED <<servers, registered_tools, tools, configured, nOps, entered>>
    /\ UNCHANGED nonMCPVars

\* what the suspended MCP coroutines do when they are resumed
ResumeMCP ==
    \/ \E t \in mcp_tasks, ok \in BOOLEAN : ConnectStep(t, ok)
    \/ \E t \in mcp_tasks, raised \in BOOLEAN :
          \E found \in (IF raised THEN {<<>>} ELSE ToolLists) :
             ListToolsReturn(t, raised, found)
    \/ \E t \in mcp_tasks : AcloseReturn(t)
    \/ \E name \in MCPServers : CallTool(name)
    \/ \E t \in mcp_tasks, raised \in BOOLEAN : CallToolReturn(t, raised)

NextMCP ==
    \/ \E name \in MCPServers : AddServer(name)
    \/ \E name \in MCPServers : RemoveServer(name)
    \/ ResumeMCP

SpecMCP == Init /\ [][NextMCP]_vars

\* exactly one add_server or remove_server is suspended
OneLifecycleInFlight == Cardinality({t \in mcp_tasks : t.op # "call_tool"}) = 1

\* add_server called while another add_server or remove_server is suspended
AddServerOverlapping(name) == OneLifecycleInFlight /\ BeginAddServer(name)

\* remove_server called while another add_server or remove_server is suspended
RemoveServerOverlapping(name) == OneLifecycleInFlight /\ BeginRemoveServer(name)

\* callers that do not wait for one another: nothing in MCPRegistry or
\* MCPClientManager makes them
NextMCPOverlap ==
    \/ NextMCP
    \/ \E name \in MCPServers : AddServerOverlapping(name)
    \/ \E name \in MCPServers : RemoveServerOverlapping(name)

SpecMCPOverlap == Init /\ [][NextMCPOverlap]_vars

\* The event loop resumes a coroutine whose awaited local operation is over:
\* spawning the transport and closing the exit stack.  What waits for the
\* server (ClientSession, initialize, list_tools, call_tool) has no deadline
\* in the code and gets no fairness.
LocalStep ==
    \/ \E t \in mcp_tasks, ok \in BOOLEAN : t.pc = "stdio" /\ ConnectStep(t, ok)
    \/ \E t \in mcp_tasks : AcloseReturn(t)

SpecMCPFair == SpecMCP /\ WF_vars(LocalStep)

\* ----------------------------------------------------- sanitize_parameters
\* Schemas are trees here, so the `visited` set of object ids never stops
\* the recursion.

unsupported_fields ==
    {"default", "minimum", "maximum", "minLength", "maxLength", "minItems", "maxItems",
     "uniqueItems", "additionalProperties", "$schema", "$ref", "$defs"}

\* the keys under which _sanitize_parameters_recursive descends
RecursedKeys == {"properties", "items", "anyOf", "oneOf", "allOf"}

\* a clean-up that deletes one unsupported field and stops
RemoveOneUnsupported(fields) ==
    IF fields \cap unsupported_fields = {} THEN fields
    ELSE fields \ {CHOOSE f \in fields \cap unsupported_fields : TRUE}

\* `for field in unsupported_fields: if field in schema: del schema[field]`
RemoveUnsupported(fields) == fields \ unsupported_fields

\* the format left by the rule for strings: only enum and date-time stay
KeptFormat(type, format) ==
    IF type = "string" /\ format # "" /\ format \notin {"enum", "date-time"}
    THEN "" ELSE format

RECURSIVE _sanitize_parameters_recursive(_)
_sanitize_parameters_recursive(s) ==
    LET s1 == [s EXCEPT !.fields = RemoveUnsupported(@),
                        !.format = KeptFormat(s.type, @)]
    IN IF s1.container \in RecursedKeys
       THEN [s1 EXCEPT !.child =
                [i \in 1..Len(s1.child) |->
                    IF s1.child[i].is_dict
                    THEN _sanitize_parameters_recursive(s1.child[i])
                    ELSE s1.child[i]]]
       ELSE s1

\* `if not schema: return schema`, else the recursion over a copy
sanitize_parameters(s) ==
    IF s = EmptyDict THEN s ELSE _sanitize_parameters_recursive(s)

\* the caller's dict after the call: schema.copy() is shallow, so the copy
\* shares the values under its keys with the argument and the recursion
\* deletes the fields of the nested dicts in both
ArgumentAfter(s, cleaned) ==
    IF s = EmptyDict THEN s ELSE [s EXCEPT !.child = cleaned.child]

\* the schemas of the runs: the scalar keys, the (type, format) pairs and the
\* keys that nest a schema ("not" is a key the recursion passes over)
InputFieldSets == {{}, {"description"}, {"default", "description"}, {"default", "minimum"}}
TypeFormats == {<<"string", "email">>, <<"string", "date-time">>, <<"integer", "email">>}
NestingKeys == RecursedKeys \cup {"not"}

Leaves == {Schema(tf[1], tf[2], f, "", <<>>) : tf \in TypeFormats, f \in InputFieldSets}

RECURSIVE SchemasOfDepth(_)
SchemasOfDepth(d) ==
    IF d = 0 THEN Leaves
    ELSE Leaves \cup
         {[l EXCEPT !.container = c, !.child = <<k>>] :
             l \in Leaves, c \in NestingKeys, k \in SchemasOfDepth(d - 1) \cup {NotADict}}

Schemas == SchemasOfDepth(MaxDepth) \cup {EmptyDict}

InitSanitizer ==
    /\ SchedulerInit /\ MCPInit /\ RetryIdle /\ RegistryInit /\ NamesIdle
    /\ schema \in Schemas
    /\ original = schema
    /\ argument = schema
    /\ passes = 0

\* cleaned = sanitize_parameters(schema), the result taken as the next input
Sanitize ==
    /\ passes < MaxPasses
    /\ schema' = sanitize_parameters(schema)
    /\ argument' = ArgumentAfter(schema, sanitize_parameters(schema))
    /\ passes' = passes + 1
    /\ UNCHANGED <<original, schedulerVars, mcpVars, retryVars, registryVars, nameVars>>

NextSanitizer == Sanitize

SpecSanitizer == InitSanitizer /\ [][NextSanitizer]_vars

\* ------------------------------------------------------ retry_with_backoff
\* The awaits are func(), options.on_persistent_429() and asyncio.sleep();
\* the hook is taken to return normally.

\* str(error) of what func raises; "ok" stands for a returned result
Errors == {"429", "503", "400"}

\* RetryOptions._default_should_retry: 429 and 5xx
_default_should_retry(error) == error \in {"429", "503"}

\* `"429" in str(error)`
Is429(error) == error = "429"

\* the count of 429 failures from which the fallback hook is invoked
Persistent429Threshold == 3

\* `min(options.max_delay_ms, current_delay_ms * 2)`
NextDelay(delay) == IF delay * 2 < max_delay_ms THEN delay * 2 ELSE max_delay_ms

InitRetry ==
    /\ SchedulerInit /\ MCPInit /\ SanitizerIdle /\ RegistryInit /\ NamesIdle
    /\ max_attempts \in 1..MaxAttempts
    /\ on_persistent_429 \in BOOLEAN
    /\ attempt = 0
    /\ consecutive_429_count = 0
    /\ last_error = ""
    /\ current_delay_ms = initial_delay_ms
    /\ retry_pc = "idle"
    /\ results = <<>>

\* retry_with_backoff(func, options) up to the first `await func()`
RetryWithBackoff ==
    /\ retry_pc = "idle"
    /\ retry_pc' = "func"
    /\ attempt' = 0
    /\ consecutive_429_count' = 0
    /\ last_error' = ""
    /\ current_delay_ms' = initial_delay_ms
    /\ UNCHANGED <<max_attempts, on_persistent_429, results>>
    /\ UNCHANGED <<schedulerVars, mcpVars, sanitizerVars, registryVars, nameVars>>

\* func() returns ("ok") or raises; retry_after: the error carries a
\* Retry-After header
FuncReturn(outcome, retry_after) ==
    /\ retry_pc = "func"
    /\ results' = Append(results, outcome)
    /\ IF outcome = "ok"
       THEN /\ retry_pc' = "returned"
            /\ consecutive_429_count' = 0
            /\ UNCHANGED <<last_error, current_delay_ms>>
       ELSE /\ last_error' = outcome
            /\ IF ~_default_should_retry(outcome) \/ attempt = max_attempts - 1
               THEN /\ retry_pc' = "raised"
                    /\ UNCHANGED <<consecutive_429_count, current_delay_ms>>
               ELSE LET count == IF Is429(outcome) THEN consecutive_429_count + 1
                                 ELSE consecutive_429_count
                    IN /\ consecutive_429_count' = count
                       /\ IF /\ Is429(outcome)
                             /\ count >= Persistent429Threshold
                             /\ on_persistent_429
                          THEN /\ retry_pc' = "hook"
                               /\ UNCHANGED current_delay_ms
                          ELSE /\ retry_pc' = "sleep"
                               /\ current_delay_ms' = IF retry_after THEN current_delay_ms
                                                      ELSE NextDelay(current_delay_ms)
    /\ UNCHANGED <<max_attempts, on_persistent_429, attempt>>
    /\ UNCHANGED <<schedulerVars, mcpVars, sanitizerVars, registryVars, nameVars>>

\* the next round of `for attempt in range(options.max_attempts)`; when the
\* range is used up, `raise last_error`
NextIteration(next_attempt) ==
    /\ attempt' = next_attempt
    /\ retry_pc' = IF next_attempt < max_attempts THEN "func" ELSE "raised"
    /\ UNCHANGED <<max_attempts, on_persistent_429, consecutive_429_count, last_error,
                   current_delay_ms, results>>
    /\ UNCHANGED <<schedulerVars, mcpVars, sanitizerVars, registryVars, nameVars>>

\* a fallback whose retry is free of charge
AttemptAfterFallbackFree(a) == a

\* `continue` after the fallback: the for loop goes on to its next value
AttemptAfterFallback(a) == a + 1

\* on_persistent_429() returns
HookReturn ==
    /\ retry_pc = "hook"
    /\ NextIteration(AttemptAfterFallback(attempt))

\* asyncio.sleep(delay_ms / 1000) returns
SleepReturn ==
    /\ retry_pc = "sleep"
    /\ NextIteration(attempt + 1)

NextRetry ==
    \/ RetryWithBackoff
    \/ \E outcome \in Errors \cup {"ok"}, retry_after \in BOOLEAN :
          FuncReturn(outcome, retry_after)
    \/ HookReturn
    \/ SleepReturn

SpecRetry == InitRetry /\ [][NextRetry]_vars

\* func, the hook and the sleep return, and the event loop resumes the caller
SpecRetryFair == SpecRetry /\ WF_vars(NextRetry)

\* ------------------------------------------------------------ ToolRegistry
\* register_tool: self.tools[tool.name] = tool_info
SetToolInfo(infos, name, capabilities, priority) ==
    [infos EXCEPT ![name] = ToolInfo(capabilities, priority)]

\* register_tool: the name is added to the index set of each capability
\* given; no set loses a name
IndexCapabilities(index, name, capabilities) ==
    [c \in Capabilities |-> IF c \in capabilities THEN index[c] \cup {name} ELSE index[c]]

\* register_tool(tool, capabilities, tags, priority, metadata)
RegisterTool(name, capabilities, priority) ==
    /\ nRegister < MaxRegister
    /\ tool_info' = SetToolInfo(tool_info, name, capabilities, priority)
    /\ _capability_index' = IndexCapabilities(_capability_index, name, capabilities)
    /\ tools' = register_tool(tools, name)
    /\ nRegister' = nRegister + 1
    /\ UNCHANGED <<servers, registered_tools, configured, mcp_tasks, returned, nOps, entered>>
    /\ UNCHANGED <<schedulerVars, sanitizerVars, retryVars, nameVars>>

\* the lists a sort by priority, highest first, can make of these names
SortedByPriority(infos, names) ==
    {q \in [1..Cardinality(names) -> names] :
        /\ \A i, j \in DOMAIN q : i # j => q[i] # q[j]
        /\ \A i, j \in DOMAIN q : i < j => infos[q[i]].priority >= infos[q[j]].priority}

\* get_tools_by_capability(capability, min_priority): the names under the
\* capability in the index whose ToolInfo has the priority, sorted; the set
\* holds one list for each order the iteration of the index set can give
get_tools_by_capability(index, infos, capability, min_priority) ==
    SortedByPriority(infos,
        {name \in index[capability] : infos[name].priority >= min_priority})

NextRegistry ==
    \E name \in RegistryTools, capabilities \in SUBSET Capabilities, priority \in Priorities :
        RegisterTool(name, capabilities, priority)

SpecRegistry == Init /\ [][NextRegistry]_vars

\* ------------------------------------------------- _sanitize_tool_name
\* Names are sequences of characters: a letter, the underscore and a blank
\* stand for the characters the pattern keeps and the ones it replaces.
Chars == {"a", "_", " "}

\* [a-zA-Z0-9_.-] among Chars
KeptChars == {"a", "_"}

max_name_length == 63
head_length == 28
tail_length == 32

\* re.sub(r'[^a-zA-Z0-9_.-]', '_', name)
ReplaceInvalid(name) ==
    [i \in 1..Len(name) |-> IF name[i] \in KeptChars THEN name[i] ELSE "_"]

\* sanitized[:28] + '___' + sanitized[-32:] for a name longer than 63
LimitLength(sanitized) ==
    IF Len(sanitized) > max_name_length
    THEN SubSeq(sanitized, 1, head_length) \o <<"_", "_", "_">>
            \o SubSeq(sanitized, Len(sanitized) - tail_length + 1, Len(sanitized))
    ELSE sanitized

\* MCPClientManager._sanitize_tool_name(name, server_name)
_sanitize_tool_name(name, server_name) ==
    LimitLength(server_name \o <<"_", "_">> \o ReplaceInvalid(name))

\* the name of the server of the runs
ServerName == <<"s", "r", "v">>

\* the tool names a server can report
ToolNamesOfLength(n) == [1..n -> Chars]
OriginalNames == UNION {ToolNamesOfLength(n) : n \in 1..MaxNameLen}

\* a list_tools response with two tools of distinct names
InitNames ==
    /\ SchedulerInit /\ MCPInit /\ SanitizerIdle /\ RetryIdle /\ RegistryInit
    /\ original_names \in {q \in [1..2 -> OriginalNames] : q[1] # q[2]}
    /\ sanitized_names = <<>>

\* one turn of the loop over response.tools in _discover_tools
SanitizeName ==
    /\ Len(sanitized_names) < Len(original_names)
    /\ sanitized_names' = Append(sanitized_names,
           _sanitize_tool_name(original_names[Len(sanitized_names) + 1], ServerName))
    /\ UNCHANGED <<original_names, schedulerVars, mcpVars, sanitizerVars, retryVars,
                   registryVars>>

NextNames == SanitizeName

SpecNames == InitNames /\ [][NextNames]_vars

\* ------------------------------------------------------------- properties
Indices == 1..Len(tool_calls)

\* no coroutine is suspended and no confirmation is outstanding
Quiescent ==
    /\ tasks = {}
    /\ \A i \in Indices : tool_calls[i].status # "awaiting_approval"

\* the calls that have reached a terminal state: those still in the list and
\* those the last sweep handed to on_all_tools_complete
TerminalCalls ==
    {tool_calls[i] : i \in {j \in Indices : tool_calls[j].status \in Terminal}}
        \cup {swept[i] : i \in 1..Len(swept)}

\* C1: once every confirmation is answered and every execute has returned,
\* tool_calls is empty and on_all_tools_complete has been invoked once per
\* accepted non-empty batch.
C1_QuiescentBatchesCompleted ==
    Quiescent => (tool_calls = <<>> /\ nComplete = nBatches)

\* C2: a call whose status is success, error or cancelled keeps its record
\* unchanged for as long as it is in tool_calls.
C2_TerminalNeverChanges ==
    [][\A i \in Indices :
          tool_calls[i].status \in Terminal =>
             \A j \in 1..Len(tool_calls') :
                tool_calls'[j].uid = tool_calls[i].uid => tool_calls'[j] = tool_calls[i]]_vars

\* C2 witness: _set_status has moved a call past a terminal call that carries
\* the same call_id and sits before it in the list.
C2_Witness ==
    \E i, j \in Indices :
        /\ i < j
        /\ tool_calls[i].call_id = tool_calls[j].call_id
        /\ tool_calls[i].status \in Terminal
        /\ tool_calls[j].status \in {"scheduled", "executing", "awaiting_approval"}

ValidEdges ==
    {<<"validating", "scheduled">>, <<"validating", "awaiting_approval">>,
     <<"validating", "error">>, <<"awaiting_approval", "scheduled">>,
     <<"awaiting_approval", "cancelled">>, <<"scheduled", "executing">>,
     <<"executing", "success">>, <<"executing", "error">>,
     <<"executing", "cancelled">>}

\* C3: every status change made by _set_status follows a defined edge.
C3_OnlyDefinedEdges ==
    \A e \in edges : <<e.from, e.to>> \in ValidEdges

\* C3 witness: a confirmation was answered while another call was executing,
\* and the answered call went awaiting_approval -> scheduled -> executing.
C3_Witness ==
    /\ \E e \in edges : e.from = "awaiting_approval" /\ e.to = "scheduled"
    /\ \E e \in edges : e.from = "scheduled" /\ e.to = "executing"
    /\ Cardinality({i \in Indices : tool_calls[i].status = "executing"}) >= 2

\* C4: every call in a terminal state carries a response with the request's
\* call_id whose part is one functionResponse with that id and the request's
\* tool name.
C4_TerminalHasFunctionResponse ==
    \A c \in TerminalCalls :
        /\ c.resp.call_id = c.call_id
        /\ c.resp.part = "functionResponse"
        /\ c.resp.id = c.call_id
        /\ c.resp.name = c.name

\* C5: no step removes a call from tool_calls, except a completion sweep
\* that clears a non-empty list of terminal calls only.
C5_ClearedOnlyBySweep ==
    [][\/ /\ Len(tool_calls') >= Len(tool_calls)
          /\ \A i \in Indices : tool_calls'[i].uid = tool_calls[i].uid
       \/ /\ swept' # <<>>
          /\ tool_calls' = <<>>
          /\ \A i \in 1..Len(swept') : swept'[i].status \in Terminal
          /\ \A i \in Indices : \E j \in 1..Len(swept') : swept'[j].uid = tool_calls[i].uid]_vars

\* C5 witness: a sweep has just cleared a list of two or more calls.
C5_Witness ==
    /\ Len(swept) >= 2
    /\ tool_calls = <<>>

\* C6: a batch with a request for an unregistered tool completes: once the
\* scheduler is quiescent no "not found" error call is left in tool_calls.
C6_UnknownToolBatchCompletes ==
    Quiescent =>
       \A i \in Indices : tool_calls[i].resp.content # "not found in registry"

\* C7: schedule() invoked while a call is executing or awaiting approval
\* raises and changes nothing: no call added, no coroutine started, no
\* status change, no listener or completion callback.
C7_ScheduleWhileRunningRejected ==
    [][(/\ nSchedule' = nSchedule + 1
        /\ \E i \in Indices : tool_calls[i].status \in {"executing", "awaiting_approval"})
       => /\ rejected'
          /\ tool_calls' = tool_calls
          /\ tasks' = tasks
          /\ nCalls' = nCalls
          /\ nComplete' = nComplete
          /\ notifies' = 0 /\ edges' = {} /\ swept' = <<>>]_vars

\* C7 witness: a schedule() has just been rejected while a call was awaiting
\* approval and none was executing.
C7_Witness ==
    /\ rejected
    /\ \E i \in Indices : tool_calls[i].status = "awaiting_approval"
    /\ \A i \in Indices : tool_calls[i].status # "executing"

\* C8: the scheduled calls of a batch are launched together: no call of a
\* batch is still scheduled while a call of the same batch is executing.
C8_BatchLaunchedConcurrently ==
    \A i, j \in Indices :
        (tool_calls[i].batch = tool_calls[j].batch /\ tool_calls[i].status = "executing")
           => tool_calls[j].status # "scheduled"

\* C9: no call enters executing while a call is awaiting approval.
C9_PausedWhileAwaitingApproval ==
    \A e \in edges : e.to = "executing" => ~e.paused

\* C10: a call whose tool honoured the abort of the signal while executing
\* ends in cancelled.
C10_AbortedExecutionCancelled ==
    \A c \in TerminalCalls :
        c.resp.content = "Execution aborted" => c.status = "cancelled"

\* the record of the call with this uid, in the list or in the last sweep
CallOf(uid) == CHOOSE c \in TerminalCalls \cup {tool_calls[i] : i \in Indices} : c.uid = uid

\* C11: a confirmation answered with cancel, or with any outcome once the
\* signal is aborted, leaves the call cancelled with the "user cancelled"
\* response, and no execute is ever in flight for a cancelled call.
C11_CancelNeverExecutes ==
    /\ (answered.uid # 0 /\ (answered.outcome = "cancel" \/ aborted)) =>
          /\ \E c \in TerminalCalls : c.uid = answered.uid
          /\ CallOf(answered.uid).status = "cancelled"
          /\ CallOf(answered.uid).resp = CancelResponse(CallOf(answered.uid).call_id)
    /\ \A c \in TerminalCalls :
          c.status = "cancelled" => \A t \in tasks : t.uid # c.uid

\* C11 witness: the signal is aborted and a confirmation answered with a
\* proceed outcome has cancelled the call while another call is executing.
C11_Witness ==
    /\ aborted
    /\ answered.outcome \in ProceedOutcomes
    /\ \E c \in TerminalCalls : c.uid = answered.uid /\ c.status = "cancelled"
    /\ \E t \in tasks : t.pc = "execute"

\* C12: the list handed to on_all_tools_complete keeps the calls in the
\* order of creation, so the calls of one batch are in the order of the
\* batch's requests.
C12_CompletedInRequestOrder ==
    \A i, j \in 1..Len(swept) : i < j => swept[i].uid < swept[j].uid

\* C12 witness: a batch of two has completed; the execution of its second
\* call had ended in an error before its first call finished executing in
\* this very step.
C12_Witness ==
    /\ Len(swept) = 2
    /\ swept[1].batch = swept[2].batch
    /\ swept[1].status = "success"
    /\ swept[2].resp.content = "result.error"
    /\ \E e \in edges : e.from = "executing" /\ e.to = "success"

\* C13: a call of a registered tool whose arguments the tool's
\* validate_tool_params rejects ends in error with the validation error text.
C13_RejectedArgsEndInError ==
    \A c \in TerminalCalls :
        (c.name \in Registered /\ validate_tool_params(c.name, c.params) # "") =>
            /\ c.status = "error"
            /\ c.resp.content = validate_tool_params(c.name, c.params)

\* the "always" answer a covers the tool: same server, or same tool
Covers(a, name) ==
    \/ a.outcome = "proceed_always_server" /\ ServerOf(a.name) = ServerOf(name)
    \/ a.outcome = "proceed_always_tool" /\ a.name = name

\* C16: once an MCP confirmation was answered proceed_always_server
\* (proceed_always_tool), no call to a tool of that server (to that tool)
\* scheduled later is awaiting approval.
C16_AlwaysAnswerAutoApproves ==
    \A i \in Indices : \A a \in always :
        (tool_calls[i].name \in MCPTools /\ tool_calls[i].batch > a.at /\ Covers(a, tool_calls[i].name))
            => tool_calls[i].status # "awaiting_approval"

\* C14: when remove_server has returned, the registry finds and lists no
\* tool of that server, and the server is disconnected.
C14_RemovedServerToolsGone ==
    returned.op = "remove_server" =>
        /\ \A name \in MCPTools :
              ServerOf(name) = returned.server =>
                 /\ get_tool(tools, name) = ""
                 /\ name \notin get_function_declarations(tools)
        /\ servers[returned.server].status = "disconnected"
        /\ servers[returned.server].session = 0

\* C15: when connect_server has returned False after a failed step, the
\* partial context is torn down and the server's status is error.
C15_FailedConnectEndsInError ==
    (returned.op = "connect_server" /\ returned.value = "False") =>
        /\ servers[returned.server].session = 0
        /\ servers[returned.server].exit_stack = 0
        /\ servers[returned.server].tools = <<>>
        /\ servers[returned.server].status = "error"

\* C17: every call_tool waiting for the answer of a server eventually
\* returns, at the latest when the server's session is gone.
C17_CallToolEventuallyReturns ==
    \A id \in 1..MaxOps :
        (\E t \in mcp_tasks : t.pc = "call" /\ t.id = id)
            ~> (\/ ~(\E t \in mcp_tasks : t.pc = "call" /\ t.id = id)
                \/ \E name \in MCPServers : servers[name].session = 0)

\* C18: applying sanitize_parameters to a schema it has returned gives that
\* schema back.
C18_SanitizeIdempotent ==
    [][passes >= 1 => schema' = schema]_vars

\* C18 witness: the second application has run on a schema whose first
\* application had cleaned both the schema and the schema nested in it.
C18_Witness ==
    /\ passes = 2
    /\ original.container \in RecursedKeys
    /\ schema.child # original.child
    /\ schema.fields # original.fields
    /\ schema.format # original.format

\* C19: the fallback hook is invoked only when the last three invocations
\* of func, at least, have all failed with 429.
C19_HookOnlyAfterThreeConsecutive429 ==
    retry_pc = "hook" =>
        /\ Len(results) >= 3
        /\ \A i \in (Len(results) - 2)..Len(results) : results[i] = "429"

\* func invocations so far, the one under way included
Invocations == Len(results) + (IF retry_pc = "func" THEN 1 ELSE 0)

LastResult == results[Len(results)]

C20_Safe ==
    /\ Invocations <= max_attempts
    /\ retry_pc = "returned" => LastResult = "ok"
    /\ retry_pc = "raised" =>
          /\ last_error = LastResult
          /\ ~_default_should_retry(LastResult) \/ Len(results) = max_attempts
    /\ results # <<>> =>
          /\ LastResult = "ok" => retry_pc = "returned"
          /\ (LastResult # "ok" /\ ~_default_should_retry(LastResult)) => retry_pc = "raised"
          /\ (LastResult # "ok" /\ Len(results) = max_attempts) => retry_pc = "raised"

C21_SweepOrder ==
    /\ at_complete.called <=> swept # <<>>
    /\ at_complete.called =>
          /\ at_complete.seen = <<>>
          /\ ~_is_running(at_complete.seen)
          /\ notifies = at_complete.notifies + 1
          /\ at_complete.updated = <<>>
          /\ tool_calls = <<>>

\* C21 witness: a sweep has handed two calls to on_all_tools_complete after
\* the status change that completed the batch was notified.
C21_Witness ==
    /\ at_complete.called
    /\ Len(swept) = 2
    /\ at_complete.notifies >= 1

\* the contents of the responses that record an error of execute
ExecuteErrors == {"result.error", "Execution aborted", "exception"}

\* C22: when the execute of an executing call returns or raises, the call
\* leaves executing in that step: to error with the error recorded in its
\* response when the result has an error or execute raised, to success
\* with the result otherwise.
C22_ExecuteOutcomeDecidesStatus ==
    [][\A t \in tasks :
          (t.pc = "execute" /\ \A u \in tasks' : u.uid # t.uid) =>
             /\ CallOf(t.uid).status = "executing"
             /\ LET c == CallOf(t.uid)'
                IN /\ c.resp.part = "functionResponse"
                   /\ c.resp.id = c.call_id /\ c.resp.name = c.name
                   /\ \/ c.status = "success" /\ c.resp.content = "output"
                      \/ c.status = "error" /\ c.resp.content \in ExecuteErrors]_vars

\* C22 witness: a batch of two has completed, its first call in error with
\* the result's error recorded and its second in success.
C22_Witness ==
    /\ Len(swept) = 2
    /\ swept[1].status = "error" /\ swept[1].resp.content = "result.error"
    /\ swept[2].status = "success" /\ swept[2].resp.content = "output"

\* C23: a discovery leaves get_server_tools equal to the list the server
\* answered, whatever the connection held before, so a server that answers
\* the same list after a disconnect is found with the same tools; and when
\* disconnect_server has run the server is disconnected with no tools.
C23_RediscoveryReplaces ==
    /\ returned.listed =>
          get_server_tools(servers, returned.server) = returned.found
    /\ (returned.op = "remove_server" \/ returned.value = "False") =>
          /\ servers[returned.server].status = "disconnected"
          /\ get_server_tools(servers, returned.server) = <<>>

\* C23 witness: the server was connected, removed and connected again, and
\* the second discovery has just returned a non-empty list.
C23_Witness ==
    /\ returned.listed
    /\ returned.found = <<"srv__read">>
    /\ "srv__write" \in tools \ registered_tools
    /\ servers[returned.server].status = "connected"

\* C24: connects and disconnects of one server do not interleave: while a
\* connect_server is suspended, the exit stack its await works on, with the
\* transport and session entered so far, stays the one the connection
\* refers to; no other connect overwrites it, no disconnect drops it.
C24_ConnectNotInterleaved ==
    \A t \in mcp_tasks :
        (t.op = "add_server" /\ t.pc \in {"stdio", "session", "initialize", "list_tools"})
            => servers[t.server].exit_stack = t.stack

\* C25: sanitize_parameters leaves the dict it was handed as it was, the
\* nested sub-schemas under properties, items, anyOf, oneOf and allOf
\* included.
C25_ArgumentUnchanged ==
    [][passes' > passes => argument' = schema]_vars

\* C26: get_tools_by_capability(c, min_priority) returns exactly the
\* registered tools whose current ToolInfo.capabilities holds c and whose
\* priority is at least min_priority, highest priority first.
C26_CapabilityQueryExact ==
    \A c \in Capabilities, min_priority \in Priorities \cup {0} :
        \A r \in get_tools_by_capability(_capability_index, tool_info, c, min_priority) :
            /\ Names(r) = {name \in RegistryTools :
                              /\ tool_info[name].registered
                              /\ c \in tool_info[name].capabilities
                              /\ tool_info[name].priority >= min_priority}
            /\ \A i, j \in 1..Len(r) :
                  i < j => tool_info[r[i]].priority >= tool_info[r[j]].priority

\* the coroutines suspended in the execute of the call uid
Executing(ts, uid) == {t \in ts : t.pc = "execute" /\ t.uid = uid}

\* C27: under every interleaving of schedule() and
\* handle_confirmation_response(), at most one execute is in flight for a
\* call and the call is executing meanwhile; an execute starts only for a
\* call that was not executing or terminal before, and every step into
\* executing is taken from scheduled, so no call is executed twice.
C27_ExecuteOncePerCall ==
    /\ [](\A t \in tasks : t.pc = "execute" =>
             /\ Cardinality(Executing(tasks, t.uid)) = 1
             /\ \E i \in Indices : tool_calls[i].uid = t.uid /\ tool_calls[i].status = "executing")
    /\ [][/\ \A t \in tasks' :
                (t.pc = "execute" /\ Executing(tasks, t.uid) = {}) =>
                   \E i \in Indices :
                      /\ tool_calls[i].uid = t.uid
                      /\ tool_calls[i].status \in {"validating", "awaiting_approval", "scheduled"}
          /\ \A e \in edges' : e.to = "executing" => e.from = "scheduled"]_vars

\* C27 witness: a pass started by schedule() is suspended in the execute of
\* one call while the pass started by a confirmation is suspended in the
\* execute of the other.
C27_Witness ==
    /\ answered.uid # 0
    /\ \E t, u \in tasks : t.pc = "execute" /\ u.pc = "execute" /\ t.uid # u.uid
                              /\ u.uid = answered.uid

\* the status of the call uid, "" when no such call is at hand
StatusOf(calls, sw, uid) ==
    LET C == {calls[i] : i \in 1..Len(calls)} \cup {sw[i] : i \in 1..Len(sw)}
    IN IF \E c \in C : c.uid = uid THEN (CHOOSE c \in C : c.uid = uid).status ELSE ""

\* the uids of the runs
Uids == 1..(MaxCalls + WideBatch)

\* the awaiting calls with this call_id
Awaiting(call_id) ==
    {i \in Indices : tool_calls[i].call_id = call_id
                        /\ tool_calls[i].status = "awaiting_approval"}

\* the index of the call uid in tool_calls
IndexOf(uid) == CHOOSE i \in Indices : tool_calls[i].uid = uid

C29_SweptIsOneBatch ==
    \A i, j \in 1..Len(swept) :
        /\ (i # j => swept[i].uid # swept[j].uid)
        /\ (swept[i].name \in Registered /\ swept[j].name \in Registered)
              => swept[i].batch = swept[j].batch

\* C30: two tools of one server with distinct original names never get the
\* same sanitized name.
C30_SanitizedNamesDistinct ==
    \A i, j \in 1..Len(sanitized_names) :
        original_names[i] # original_names[j] => sanitized_names[i] # sanitized_names[j]

====
